---- MODULE Spec2Model ----
(***************************************************************************)
(* Model of the agentD HTTP service (agentD/app.py) and of the progress-   *)
(* step generator (agentD/agentd_backend/progress_gemini.py).              *)
(*                                                                         *)
(* Three specifications share the variables of this module:                *)
(*   SpecCfg    the tool-configuration endpoints GET|POST /api/zapier_mcp  *)
(*   SpecApp    start-up, the metrics loop and the /api/agent_tasks        *)
(*              endpoints (FairApp adds the event loop's fairness)         *)
(*   SpecSteps  generate_progress_steps as a function of the model reply   *)
(* Strings the code takes apart (URLs, reply lines) are sequences of       *)
(* one-character strings.                                                  *)
(***************************************************************************)
EXTENDS Integers, Sequences, FiniteSets, TLC

VARIABLES
    \* ---- tool configuration (browser_mcp.json and its two handlers)
    file,        \* the persisted tool-config file
    file0,       \* history: the file as it was when the process started
    req,         \* per request slot: the request in flight and its handler's position
    running,     \* the coroutine the event loop is executing (0: none)
    lastDone,    \* history: the handler call that completed last, and the one before it
    \* ---- start-up, metrics loop, agent tasks
    pc,          \* position of the process in module import / lifespan
    startupLog,  \* history: the start-up steps in the order they happened
    dbTables,    \* tables present in memory.sqlite
    metricsPc,   \* position of periodic_metrics_logger ("none": not launched)
    metricsEv,   \* history: what the metrics loop did last
    now,         \* wall clock, in milliseconds
    tasks,       \* rows of agent_tasks, in insertion (rowid) order
    lastReq,     \* history: the last /api/agent_tasks request
    resp,        \* history: the response to lastReq
    \* ---- progress-step generator
    reply,       \* response.text of the model
    max_steps,   \* the max_steps argument
    stepsPc,     \* "call" before generate_progress_steps ran, "done" after
    stepsOut     \* its outcome

cfgVars   == <<file, file0, req, running, lastDone>>
appVars   == <<pc, startupLog, dbTables, metricsPc, metricsEv, now, tasks, lastReq, resp>>
stepsVars == <<reply, max_steps, stepsPc, stepsOut>>
vars      == <<file, file0, req, running, lastDone,
               pc, startupLog, dbTables, metricsPc, metricsEv, now, tasks, lastReq, resp,
               reply, max_steps, stepsPc, stepsOut>>

(***************************************************************************)
(* Bounds                                                                  *)
(***************************************************************************)
NumReqs  == 2      \* request slots: requests that can be in flight together
MaxTasks == 2      \* rows in agent_tasks
MaxTicks == 2      \* times the wall clock advances
MaxLines == 3      \* lines in the model's reply

Reqs == 1..NumReqs

(***************************************************************************)
(* Strings                                                                 *)
(***************************************************************************)
RECURSIVE StartsWith(_, _)
\* str.startswith
StartsWith(s, p) ==
    IF p = <<>> THEN TRUE
    ELSE IF s = <<>> THEN FALSE
    ELSE Head(s) = Head(p) /\ StartsWith(Tail(s), Tail(p))

\* "https://actions.zapier.com/mcp/"
ZAPIER_PREFIX ==
    <<"h","t","t","p","s",":","/","/">> \o
    <<"a","c","t","i","o","n","s",".">> \o
    <<"z","a","p","i","e","r",".","c","o","m">> \o
    <<"/","m","c","p","/">>

RECURSIVE JsonEscape(_)
\* json.dump of a str, between the quotes: '"' and '\' are escaped
JsonEscape(s) ==
    IF s = <<>> THEN <<>>
    ELSE IF Head(s) \in {"\"", "\\"} THEN <<"\\", Head(s)>> \o JsonEscape(Tail(s))
    ELSE <<Head(s)>> \o JsonEscape(Tail(s))

RECURSIVE JsonUnescape(_)
\* json.load of a string literal, between the quotes
JsonUnescape(s) ==
    IF s = <<>> THEN <<>>
    ELSE IF Head(s) = "\\" /\ Len(s) >= 2
         THEN <<s[2]>> \o JsonUnescape(Tail(Tail(s)))
    ELSE <<Head(s)>> \o JsonUnescape(Tail(s))

(***************************************************************************)
(* Tool configuration: browser_mcp.json, GET and POST /api/zapier_mcp      *)
(***************************************************************************)
ToolNames == {"zapier", "browser"}

NoEntry  == [present |-> FALSE, hasUrl |-> FALSE, url |-> <<>>]
Entry(u) == [present |-> TRUE, hasUrl |-> TRUE, url |-> u]

\* a JSON object without the key "mcpServers"
NoServers == [hasServers |-> FALSE, servers |-> [t \in ToolNames |-> NoEntry]]
\* {"mcpServers": {}}
EmptyConfig == [hasServers |-> TRUE, servers |-> [t \in ToolNames |-> NoEntry]]

\* json.dump(config, f): the document as text, every string escaped
json_dump(config) ==
    [hasServers |-> config.hasServers,
     servers |-> [t \in ToolNames |->
                    [config.servers[t] EXCEPT !.url = JsonEscape(@)]]]

\* json.load(f): the text parsed, every string unescaped
json_load(text) ==
    [hasServers |-> text.hasServers,
     servers |-> [t \in ToolNames |->
                    [text.servers[t] EXCEPT !.url = JsonUnescape(@)]]]

AbsentFile     == [state |-> "absent", text |-> NoServers]
TruncatedFile  == [state |-> "empty", text |-> NoServers]
JsonFile(conf) == [state |-> "json", text |-> json_dump(conf)]

\* url.startswith("https://actions.zapier.com/mcp/") with only the scheme compared
UrlValid_SchemeOnly(url) == StartsWith(url, <<"h","t","t","p">>)

\* url.startswith("https://actions.zapier.com/mcp/")
UrlValid(url) == StartsWith(url, ZAPIER_PREFIX)

\* config["mcpServers"].setdefault("zapier", {"url": url}): keeps an existing entry
SetZapier_KeepExisting(config, url) ==
    IF config.servers["zapier"].present THEN config
    ELSE [config EXCEPT !.servers["zapier"] = Entry(url)]

\* config["mcpServers"]["zapier"] = {"url": url}
SetZapier(config, url) == [config EXCEPT !.servers["zapier"] = Entry(url)]

\* config.get("mcpServers", {}).get("zapier", {}).get("url", "")
GetZapierUrl(config) ==
    IF config.hasServers /\ config.servers["zapier"].present
       /\ config.servers["zapier"].hasUrl
    THEN config.servers["zapier"].url
    ELSE <<>>

\* ---- inputs
UrlXyz    == ZAPIER_PREFIX \o <<"x","y","z">>
UrlQuoted == ZAPIER_PREFIX \o <<"a","\"","\\","b">>
UrlEvil   == <<"h","t","t","p",":","/","/","e","v","i","l",".","c","o","m">>
UrlNoSlash == SubSeq(ZAPIER_PREFIX, 1, Len(ZAPIER_PREFIX) - 1)
UrlOld    == ZAPIER_PREFIX \o <<"o","l","d">>
UrlBrowser == <<"h","t","t","p",":","/","/","b">>

ValidUrls   == {UrlXyz, UrlQuoted}
InvalidUrls == {UrlEvil, UrlNoSlash}

NoPayload == [kind |-> "missing", s |-> <<>>]
\* the JSON body of a POST /api/zapier_mcp: url a string, absent, or null
SetPayloads ==
    {[kind |-> "str", s |-> u] : u \in ValidUrls \cup InvalidUrls}
    \cup {NoPayload, [kind |-> "null", s |-> <<>>]}

\* payload.get("url", "")
PayloadUrl(p) == IF p.kind = "str" THEN p.s ELSE <<>>

\* the file as the process may find it: absent, or some JSON object
InitialFiles ==
    {AbsentFile,
     [state |-> "json", text |-> NoServers],
     JsonFile([EmptyConfig EXCEPT !.servers["browser"] = Entry(UrlBrowser)]),
     JsonFile([EmptyConfig EXCEPT !.servers["browser"] = Entry(UrlBrowser),
                                  !.servers["zapier"] = Entry(UrlOld)]),
     JsonFile([EmptyConfig EXCEPT !.servers["zapier"] =
                                      [present |-> TRUE, hasUrl |-> FALSE, url |-> <<>>]])}

\* ---- request slots and the event loop
IdleReq == [pc |-> "idle", op |-> "none", payload |-> NoPayload, url |-> <<>>,
            config |-> NoServers]

\* what is remembered of the call before the last: whether it was a POST
\* that succeeded, and then its URL and whether another POST was waiting
\* for the event loop when it completed
NoCall == [setOk |-> FALSE, url |-> <<>>, conc |-> FALSE]

Summary(c) ==
    IF c.op = "set" /\ c.status = 200
    THEN [setOk |-> TRUE, url |-> c.url, conc |-> c.conc]
    ELSE NoCall

\* any coroutine may be resumed while another is inside a handler
LoopFree_Preemptive(r) == TRUE

\* Neither handler awaits: once the event loop enters one it runs it to its
\* return or raise before it resumes any other coroutine.
LoopFree(r) == running \in {0, r}

\* the handler of slot r returns or raises: the response is sent
Respond(r, status, out) ==
    /\ lastDone' = [op |-> req[r].op, kind |-> req[r].payload.kind,
                    url |-> PayloadUrl(req[r].payload), status |-> status,
                    out |-> out,
                    conc |-> \E q \in Reqs \ {r} :
                                 req[q].pc = "pending" /\ req[q].op = "set",
                    prev |-> Summary(lastDone)]
    /\ req' = [req EXCEPT ![r] = IdleReq]
    /\ running' = 0

\* a request reaches the server and waits for the event loop
Arrive(r, op, payload) ==
    /\ req[r].pc = "idle"
    /\ req' = [req EXCEPT ![r] =
                 [IdleReq EXCEPT !.pc = "pending", !.op = op, !.payload = payload]]
    /\ UNCHANGED <<file, file0, running, lastDone>>
    /\ UNCHANGED <<appVars, stepsVars>>

\* app.py 136-143
get_zapier_mcp(r) ==
    /\ LoopFree(r)
    /\ req[r].pc = "pending" /\ req[r].op = "get"
    /\ IF file.state = "absent" THEN Respond(r, 200, <<>>)
       ELSE IF file.state = "empty" THEN Respond(r, 500, <<>>)   \* JSONDecodeError
       ELSE Respond(r, 200, GetZapierUrl(json_load(file.text)))
    /\ UNCHANGED <<file, file0>>
    /\ UNCHANGED <<appVars, stepsVars>>

\* app.py 147-149
update_validate(r) ==
    /\ LoopFree(r)
    /\ req[r].pc = "pending" /\ req[r].op = "set"
    /\ IF req[r].payload.kind = "null"
       THEN Respond(r, 500, <<>>)        \* AttributeError: None has no startswith
       ELSE IF ~UrlValid(PayloadUrl(req[r].payload))
       THEN Respond(r, 400, <<>>)
       ELSE /\ req' = [req EXCEPT ![r].pc = "read",
                                  ![r].url = PayloadUrl(req[r].payload)]
            /\ running' = r
            /\ UNCHANGED lastDone
    /\ UNCHANGED <<file, file0>>
    /\ UNCHANGED <<appVars, stepsVars>>

\* app.py 151-152
update_read(r) ==
    /\ LoopFree(r)
    /\ req[r].pc = "read"
    /\ IF file.state = "absent"
       THEN /\ req' = [req EXCEPT ![r].pc = "modify", ![r].config = EmptyConfig]
            /\ UNCHANGED <<running, lastDone>>
       ELSE IF file.state = "empty"
       THEN Respond(r, 500, <<>>)        \* JSONDecodeError
       ELSE /\ req' = [req EXCEPT ![r].pc = "modify",
                                  ![r].config = json_load(file.text)]
            /\ UNCHANGED <<running, lastDone>>
    /\ UNCHANGED <<file, file0>>
    /\ UNCHANGED <<appVars, stepsVars>>

\* app.py 153
update_modify(r) ==
    /\ LoopFree(r)
    /\ req[r].pc = "modify"
    /\ IF ~req[r].config.hasServers
       THEN Respond(r, 500, <<>>)        \* KeyError: 'mcpServers'
       ELSE /\ req' = [req EXCEPT ![r].pc = "open",
                                  ![r].config = SetZapier(@, req[r].url)]
            /\ UNCHANGED <<running, lastDone>>
    /\ UNCHANGED <<file, file0>>
    /\ UNCHANGED <<appVars, stepsVars>>

\* app.py 155: open(path, 'w') creates or truncates the file
update_open(r) ==
    /\ LoopFree(r)
    /\ req[r].pc = "open"
    /\ file' = TruncatedFile
    /\ req' = [req EXCEPT ![r].pc = "dump"]
    /\ UNCHANGED <<file0, running, lastDone>>
    /\ UNCHANGED <<appVars, stepsVars>>

\* app.py 156-157
update_dump(r) ==
    /\ LoopFree(r)
    /\ req[r].pc = "dump"
    /\ file' = JsonFile(req[r].config)
    /\ Respond(r, 200, req[r].url)
    /\ UNCHANGED file0
    /\ UNCHANGED <<appVars, stepsVars>>

InitCfgVars ==
    /\ file \in InitialFiles
    /\ file0 = file
    /\ req = [r \in Reqs |-> IdleReq]
    /\ running = 0
    /\ lastDone = [op |-> "none", kind |-> "missing", url |-> <<>>,
                   status |-> 0, out |-> <<>>, conc |-> FALSE, prev |-> NoCall]

(***************************************************************************)
(* Start-up: module import (init_db) and the lifespan context manager      *)
(***************************************************************************)
AllTables == {"chat_sessions", "chat_messages", "agent_tasks"}

\* app.py 29-62: CREATE TABLE IF NOT EXISTS for the three tables, at import
init_db ==
    /\ pc = "import"
    /\ dbTables' = dbTables \cup AllTables
    /\ startupLog' = Append(startupLog, "init_db")
    /\ pc' = "loaded"
    /\ UNCHANGED <<metricsPc, metricsEv, now, tasks, lastReq, resp>>
    /\ UNCHANGED <<cfgVars, stepsVars>>

\* initialize_agent() called without await: the coroutine never runs
lifespan_initialize_NoAwait ==
    /\ pc = "loaded"
    /\ pc' = "initialized"
    /\ UNCHANGED <<startupLog, dbTables, metricsPc, metricsEv, now, tasks, lastReq, resp>>
    /\ UNCHANGED <<cfgVars, stepsVars>>

\* app.py 75-76: await initialize_agent(); if it raises, start-up fails and
\* the server exits without serving
lifespan_initialize ==
    /\ pc = "loaded"
    /\ \E ok \in BOOLEAN :
         IF ok THEN /\ startupLog' = Append(startupLog, "initialize_agent")
                    /\ pc' = "initialized"
               ELSE /\ pc' = "failed"
                    /\ UNCHANGED startupLog
    /\ UNCHANGED <<dbTables, metricsPc, metricsEv, now, tasks, lastReq, resp>>
    /\ UNCHANGED <<cfgVars, stepsVars>>

\* app.py 77: asyncio.create_task(periodic_metrics_logger(60))
lifespan_create_task ==
    /\ pc = "initialized"
    /\ metricsPc' = "call"
    /\ startupLog' = Append(startupLog, "create_task")
    /\ pc' = "launched"
    /\ UNCHANGED <<dbTables, metricsEv, now, tasks, lastReq, resp>>
    /\ UNCHANGED <<cfgVars, stepsVars>>

\* app.py 78: yield; start-up is complete and the server accepts requests
lifespan_yield ==
    /\ pc = "launched"
    /\ pc' = "serving"
    /\ UNCHANGED <<startupLog, dbTables, metricsPc, metricsEv, now, tasks, lastReq, resp>>
    /\ UNCHANGED <<cfgVars, stepsVars>>

\* app.py 79: the server shuts down and the process exits
lifespan_shutdown ==
    /\ pc = "serving"
    /\ pc' = "stopped"
    /\ UNCHANGED <<startupLog, dbTables, metricsPc, metricsEv, now, tasks, lastReq, resp>>
    /\ UNCHANGED <<cfgVars, stepsVars>>

(***************************************************************************)
(* periodic_metrics_logger                                                 *)
(***************************************************************************)
\* the exception of log_system_metrics leaves the loop
AfterLogFailure_Propagates == "dead"

\* app.py 69-71: except Exception prints, and the loop goes on to the sleep
AfterLogFailure == "sleep"

\* app.py 66-70: one call of log_system_metrics, which returns or raises
metrics_log ==
    /\ metricsPc = "call"
    /\ pc \in {"launched", "serving"}
    /\ \E ok \in BOOLEAN :
         IF ok THEN /\ metricsEv' = "logged"
                    /\ metricsPc' = "sleep"
               ELSE /\ metricsEv' = "error_reported"
                    /\ metricsPc' = AfterLogFailure
    /\ UNCHANGED <<pc, startupLog, dbTables, now, tasks, lastReq, resp>>
    /\ UNCHANGED <<cfgVars, stepsVars>>

\* app.py 71, 66: asyncio.sleep(interval_seconds) returns, next iteration
metrics_wake ==
    /\ metricsPc = "sleep"
    /\ pc \in {"launched", "serving"}
    /\ metricsEv' = IF metricsEv = "error_reported" THEN "resumed_after_error"
                                                     ELSE "resumed"
    /\ metricsPc' = "call"
    /\ UNCHANGED <<pc, startupLog, dbTables, now, tasks, lastReq, resp>>
    /\ UNCHANGED <<cfgVars, stepsVars>>

(***************************************************************************)
(* Agent tasks: GET and POST /api/agent_tasks                              *)
(***************************************************************************)
\* int(... * 1000) in create_agent_task: ids count milliseconds, while
\* CURRENT_TIMESTAMP of created_at counts seconds
MsPerSecond == 1000

TickSteps == {1, MsPerSecond}

\* how often the clock advanced so far
TickCount(t) == (t \div MsPerSecond) + (t % MsPerSecond)

\* the wall clock advances by a millisecond or by a second
Tick(d) ==
    /\ TickCount(now) < MaxTicks
    /\ now' = now + d
    /\ UNCHANGED <<pc, startupLog, dbTables, metricsPc, metricsEv, tasks, lastReq, resp>>
    /\ UNCHANGED <<cfgVars, stepsVars>>

\* An optional JSON field is <<>> when absent (None) and <<s>> when it is s.
Truthy(v) == v # <<>> /\ v[1] # ""

TaskPayloads ==
    [name : {<<>>, <<"">>, <<"t1">>},
     description : {<<>>, <<"d">>},
     task : {<<>>, <<"">>, <<"scrape prices">>}]

NoTaskPayload == [name |-> <<>>, description |-> <<>>, task |-> <<>>]

\* "if not name and not task"
PayloadRejected_BothMissing(payload) == ~Truthy(payload.name) /\ ~Truthy(payload.task)

\* app.py 172: if not name or not task
PayloadRejected(payload) == ~Truthy(payload.name) \/ ~Truthy(payload.task)

\* app.py 175: f"task_{int(datetime.utcnow().timestamp() * 1000)}"
TaskId(t) == <<"task_", t>>

\* column created_at: CURRENT_TIMESTAMP, "YYYY-MM-DD HH:MM:SS"
CurrentTimestamp(t) == t \div MsPerSecond

NoResp == [status |-> 0, id |-> <<>>, list |-> <<>>]

\* app.py 169-182
create_agent_task(payload) ==
    /\ pc = "serving"
    /\ lastReq' = [op |-> "create", payload |-> payload]
    /\ IF PayloadRejected(payload)
       THEN /\ resp' = [NoResp EXCEPT !.status = 400]
            /\ UNCHANGED <<tasks, now>>
       ELSE /\ Len(tasks) < MaxTasks
            \* the clock may advance between utcnow() and the INSERT
            /\ \E d \in {0, 1} :
                 /\ d = 0 \/ TickCount(now) < MaxTicks
                 /\ now' = now + d
                 /\ IF "agent_tasks" \notin dbTables
                       \/ \E i \in 1..Len(tasks) : tasks[i].id = TaskId(now)
                    THEN \* OperationalError, or IntegrityError on the PRIMARY KEY
                         /\ resp' = [NoResp EXCEPT !.status = 500]
                         /\ UNCHANGED tasks
                    ELSE /\ tasks' = Append(tasks,
                                [id |-> TaskId(now), name |-> payload.name,
                                 description |-> payload.description,
                                 task |-> payload.task,
                                 created_at |-> CurrentTimestamp(now'),
                                 last_result |-> <<>>])
                         /\ resp' = [NoResp EXCEPT !.status = 200, !.id = TaskId(now)]
    /\ UNCHANGED <<pc, startupLog, dbTables, metricsPc, metricsEv>>
    /\ UNCHANGED <<cfgVars, stepsVars>>

\* the orders in which SELECT ... ORDER BY created_at DESC may return the
\* rows: created_at never increases along the result; rows of equal
\* created_at come in an order SQL leaves open
OrderByCreatedAtDesc(rows) ==
    {[i \in 1..Len(rows) |-> rows[f[i]]] :
        f \in {g \in [1..Len(rows) -> 1..Len(rows)] :
                 /\ \A i, j \in 1..Len(rows) : i # j => g[i] # g[j]
                 /\ \A i, j \in 1..Len(rows) :
                        i < j => rows[g[i]].created_at >= rows[g[j]].created_at}}

\* app.py 160-167
get_agent_tasks ==
    /\ pc = "serving"
    /\ lastReq' = [op |-> "list", payload |-> NoTaskPayload]
    /\ \E result \in OrderByCreatedAtDesc(tasks) :
         resp' = [NoResp EXCEPT !.status = 200, !.list = result]
    /\ UNCHANGED <<pc, startupLog, dbTables, metricsPc, metricsEv, now, tasks>>
    /\ UNCHANGED <<cfgVars, stepsVars>>

InitAppVars ==
    /\ pc = "import"
    /\ startupLog = <<>>
    /\ dbTables \in {{}, AllTables}
    /\ metricsPc = "none"
    /\ metricsEv = "none"
    /\ now = 0
    /\ tasks = <<>>
    /\ lastReq = [op |-> "none", payload |-> NoTaskPayload]
    /\ resp = NoResp

(***************************************************************************)
(* generate_progress_steps                                                 *)
(***************************************************************************)
Digits     == {"0", "1", "2", "3", "4", "5", "6", "7", "8", "9"}
Whitespace == {" ", "\t", "\n"}

\* max_steps=6 in the signature of generate_progress_steps
DefaultMaxSteps == 6

RECURSIVE SplitLinesFrom(_, _)
\* str.splitlines, with cur the line being read
SplitLinesFrom(s, cur) ==
    IF s = <<>> THEN (IF cur = <<>> THEN <<>> ELSE <<cur>>)
    ELSE IF Head(s) = "\n" THEN <<cur>> \o SplitLinesFrom(Tail(s), <<>>)
    ELSE SplitLinesFrom(Tail(s), Append(cur, Head(s)))

SplitLines(s) == SplitLinesFrom(s, <<>>)

RECURSIVE LStrip(_)
LStrip(s) == IF s # <<>> /\ Head(s) \in Whitespace THEN LStrip(Tail(s)) ELSE s

RECURSIVE RStrip(_)
RStrip(s) ==
    IF s # <<>> /\ s[Len(s)] \in Whitespace THEN RStrip(SubSeq(s, 1, Len(s) - 1)) ELSE s

\* str.strip
Strip(s) == RStrip(LStrip(s))

RECURSIVE AfterFirst(_, _)
\* s.split(c, 1)[1], for an s that contains c
AfterFirst(s, c) == IF Head(s) = c THEN Tail(s) ELSE AfterFirst(Tail(s), c)

Contains(s, c) == \E i \in 1..Len(s) : s[i] = c

NoSteps == [error |-> "none", steps |-> <<>>]

RECURSIVE ParseLines(_, _)
\* progress_gemini.py 29-36: the loop over response.text.splitlines()
ParseLines(lines, steps) ==
    IF lines = <<>> THEN [error |-> "none", steps |-> steps]
    ELSE LET line == Strip(Head(lines)) IN
         IF line # <<>> /\ line[1] \in Digits
         THEN IF Contains(line, ".")
              THEN ParseLines(Tail(lines), Append(steps, Strip(AfterFirst(line, "."))))
              ELSE [error |-> "IndexError", steps |-> <<>>]   \* split(".", 1)[1]
         ELSE ParseLines(Tail(lines), steps)

\* ---- inputs: the lines a reply is made of
ReplyLines ==
    {<<"1", ".", " ", "a">>,         \* "1. a"
     <<"2", ".", " ", "b">>,         \* "2. b"
     <<"1", "0", ".", " ", "c">>,    \* "10. c"
     <<" ", "3", ".", " ", "d", " ">>,   \* " 3. d "
     <<"D", "o", "n", "e", ".">>,    \* "Done."
     <<>>,                           \* ""
     <<"4", ")", " ", "e">>,         \* "4) e"
     <<"5", ".">>,                   \* "5."
     <<"6", " ", "v", "1", ".", "2">>}   \* "6 v1.2"

RECURSIVE JoinLines(_)
\* the lines joined by "\n"
JoinLines(ls) ==
    IF ls = <<>> THEN <<>>
    ELSE IF Len(ls) = 1 THEN ls[1]
    ELSE ls[1] \o <<"\n">> \o JoinLines(Tail(ls))

Replies == {JoinLines(ls) : ls \in UNION {[1..n -> ReplyLines] : n \in 0..MaxLines}}

\* progress_gemini.py 9-36, given the text the model replied
generate_progress_steps ==
    /\ stepsPc = "call"
    /\ stepsOut' = ParseLines(SplitLines(reply), <<>>)
    /\ stepsPc' = "done"
    /\ UNCHANGED <<reply, max_steps>>
    /\ UNCHANGED <<cfgVars, appVars>>

InitStepsVars ==
    /\ reply \in Replies
    /\ max_steps \in {2, DefaultMaxSteps}
    /\ stepsPc = "call"
    /\ stepsOut = NoSteps

(***************************************************************************)
(* Specifications                                                          *)
(***************************************************************************)
\* the variables a specification does not use keep one value
IdleCfgVars ==
    /\ file = AbsentFile /\ file0 = AbsentFile
    /\ req = [r \in Reqs |-> IdleReq] /\ running = 0
    /\ lastDone = [op |-> "none", kind |-> "missing", url |-> <<>>,
                   status |-> 0, out |-> <<>>, conc |-> FALSE, prev |-> NoCall]

IdleAppVars ==
    /\ pc = "import" /\ startupLog = <<>> /\ dbTables = {}
    /\ metricsPc = "none" /\ metricsEv = "none" /\ now = 0 /\ tasks = <<>>
    /\ lastReq = [op |-> "none", payload |-> NoTaskPayload] /\ resp = NoResp

IdleStepsVars ==
    /\ reply = <<>> /\ max_steps = DefaultMaxSteps /\ stepsPc = "call"
    /\ stepsOut = NoSteps

InitCfg == InitCfgVars /\ IdleAppVars /\ IdleStepsVars

NextCfg ==
    \/ \E r \in Reqs : \E p \in SetPayloads : Arrive(r, "set", p)
    \/ \E r \in Reqs : Arrive(r, "get", NoPayload)
    \/ \E r \in Reqs : get_zapier_mcp(r)
    \/ \E r \in Reqs : update_validate(r)
    \/ \E r \in Reqs : update_read(r)
    \/ \E r \in Reqs : update_modify(r)
    \/ \E r \in Reqs : update_open(r)
    \/ \E r \in Reqs : update_dump(r)

SpecCfg == InitCfg /\ [][NextCfg]_vars

InitApp == IdleCfgVars /\ InitAppVars /\ IdleStepsVars

NextApp ==
    \/ init_db
    \/ lifespan_initialize
    \/ lifespan_create_task
    \/ lifespan_yield
    \/ lifespan_shutdown
    \/ metrics_log
    \/ metrics_wake
    \/ \E d \in TickSteps : Tick(d)
    \/ \E p \in TaskPayloads : create_agent_task(p)
    \/ get_agent_tasks

SpecApp == InitApp /\ [][NextApp]_vars

\* The event loop runs a ready task and fires a due timer: the metrics loop
\* is resumed whenever it can go on. Start-up goes on as long as it can.
FairApp ==
    /\ SpecApp
    /\ WF_vars(init_db) /\ WF_vars(lifespan_initialize)
    /\ WF_vars(lifespan_create_task) /\ WF_vars(lifespan_yield)
    /\ WF_vars(metrics_log) /\ WF_vars(metrics_wake)

InitSteps == IdleCfgVars /\ IdleAppVars /\ InitStepsVars

NextSteps ==
    generate_progress_steps

SpecSteps == InitSteps /\ [][NextSteps]_vars

(***************************************************************************)
(* Properties of the tool configuration (SpecCfg)                          *)
(***************************************************************************)
\* a POST body whose url is a string without the prefix, or has no url
C1_LacksPrefix(p) ==
    \/ p.kind = "missing"
    \/ p.kind = "str" /\ ~StartsWith(p.s, ZAPIER_PREFIX)

\* C1: a POST /api/zapier_mcp whose url lacks the prefix (or is missing) is
\* answered 400 by the one step its handler takes, and that step leaves the
\* file as it was, whatever calls came before.
C1_InvalidUrlRejected ==
    [][\A r \in Reqs :
          (/\ req[r].pc = "pending" /\ req[r].op = "set"
           /\ C1_LacksPrefix(req[r].payload)
           /\ req'[r] # req[r])
          => (/\ req'[r].pc = "idle"
              /\ lastDone'.op = "set" /\ lastDone'.status = 400
              /\ file' = file)]_vars

\* a URL without the final "/" of the prefix was rejected after an earlier
\* POST had rewritten the file
C1_Witness ==
    /\ lastDone.op = "set" /\ lastDone.status = 400
    /\ lastDone.kind = "str" /\ lastDone.url = UrlNoSlash
    /\ lastDone.prev.setOk
    /\ file.state = "json" /\ file # file0

\* C2: a GET that completes right after a successful POST returns exactly
\* the URL that POST was given, whatever the file held before.
C2_SetThenGet ==
    (lastDone.op = "get" /\ lastDone.prev.setOk)
    => (lastDone.status = 200 /\ lastDone.out = lastDone.prev.url)

\* the URL with a quote and a backslash was set over an older zapier entry
\* and read back
C2_Witness ==
    /\ lastDone.op = "get" /\ lastDone.status = 200
    /\ lastDone.prev.setOk /\ lastDone.prev.url = UrlQuoted
    /\ file0.state = "json" /\ file0.text.servers["zapier"].hasUrl

C10_Malformed(f) == f.state = "json" /\ ~f.text.hasServers

\* C10: with the file absent or a config document at start, every POST
\* with a valid URL succeeds however the requests overlap; once the last
\* completed call is a successful POST and the loop is between handlers,
\* the file is a config whose zapier URL is that POST's URL; and the
\* entries of the other tools are those the file started with.
C10_LastWriteWins ==
    /\ (/\ lastDone.op = "set" /\ lastDone.kind = "str"
        /\ StartsWith(lastDone.url, ZAPIER_PREFIX)
        /\ ~C10_Malformed(file0))
       => lastDone.status = 200
    /\ (lastDone.op = "set" /\ lastDone.status = 200 /\ running = 0)
       => (/\ file.state = "json" /\ file.text.hasServers
           /\ file.text.servers["zapier"].present
           /\ file.text.servers["zapier"].hasUrl
           /\ JsonUnescape(file.text.servers["zapier"].url) = lastDone.url)
    /\ running = 0
       => (/\ file.state # "empty"
           /\ \A t \in ToolNames \ {"zapier"} :
                 file.text.servers[t] = file0.text.servers[t])

\* two POSTs with different valid URLs were in flight together, both
\* succeeded, and the file holds the URL of the one that wrote last next to
\* the browser entry it started with
C10_Witness ==
    /\ lastDone.op = "set" /\ lastDone.status = 200
    /\ lastDone.prev.setOk /\ lastDone.prev.conc
    /\ lastDone.prev.url # lastDone.url
    /\ running = 0
    /\ JsonUnescape(file.text.servers["zapier"].url) = lastDone.url
    /\ file.text.servers["browser"].present

(***************************************************************************)
(* Properties of start-up, the metrics loop and the tasks (SpecApp)        *)
(***************************************************************************)
\* name or task absent or empty
C3_Incomplete(p) == p.name \in {<<>>, <<"">>} \/ p.task \in {<<>>, <<"">>}

\* C3: a POST /api/agent_tasks without a name or without a task is answered
\* 400 and leaves the rows of agent_tasks as they were.
C3_IncompleteTaskRejected ==
    [][(lastReq'.op = "create" /\ C3_Incomplete(lastReq'.payload))
       => (resp'.status = 400 /\ tasks' = tasks)]_vars

\* a POST with a task but no name was rejected while the table had a row
C3_Witness ==
    /\ lastReq.op = "create"
    /\ lastReq.payload.name = <<>> /\ Truthy(lastReq.payload.task)
    /\ resp.status = 400
    /\ Len(tasks) >= 1

\* C4: GET /api/agent_tasks lists the task created by the latest successful
\* POST first.
C4_LatestFirst ==
    (lastReq.op = "list" /\ tasks # <<>>)
    => (resp.status = 200 /\ resp.list[1].id = tasks[Len(tasks)].id)

\* C5: every POST with a name and a task succeeds with a new id task_<n>,
\* and ids grow with the order of creation.
C5_IdsUniqueAndOrdered ==
    /\ (lastReq.op = "create" /\ Truthy(lastReq.payload.name)
        /\ Truthy(lastReq.payload.task))
       => (/\ resp.status = 200
           /\ resp.id[1] = "task_"
           /\ tasks # <<>> /\ tasks[Len(tasks)].id = resp.id)
    /\ \A i, j \in 1..Len(tasks) : i < j => tasks[i].id[2] < tasks[j].id[2]

StartupOrder == <<"init_db", "initialize_agent", "create_task">>

\* C7: the start-up steps happen in the order init_db, initialize_agent,
\* create_task, each at most once; after init_db the three tables exist; the
\* metrics loop exists only after all three; and no request is handled, nor
\* is the server serving, before all three.
C7_StartupOrder ==
    /\ Len(startupLog) <= Len(StartupOrder)
    /\ startupLog = SubSeq(StartupOrder, 1, Len(startupLog))
    /\ (Len(startupLog) >= 1 => AllTables \subseteq dbTables)
    /\ (metricsPc # "none" => startupLog = StartupOrder)
    /\ (pc \in {"launched", "serving", "stopped"} => startupLog = StartupOrder)
    /\ (lastReq.op # "none" => startupLog = StartupOrder)

\* a task was created by a handler after the whole start-up, on a database
\* that had no table before, with the metrics loop past its first call
C7_Witness ==
    /\ pc = "serving" /\ startupLog = StartupOrder
    /\ lastReq.op = "create" /\ resp.status = 200
    /\ metricsEv = "logged"

\* C8: every call of log_system_metrics, returning or raising, is followed
\* by the sleep, every sleep by the next call, and until the process stops
\* the launched loop is again and again at the call and at the sleep.
C8_MetricsLoopForever ==
    /\ [][(metricsPc = "call" /\ metricsPc' # "call")
          => (metricsPc' = "sleep" /\ metricsEv' \in {"logged", "error_reported"})]_vars
    /\ [][(metricsPc = "sleep" /\ metricsPc' # "sleep") => metricsPc' = "call"]_vars
    /\ [](metricsPc # "none" => <>(metricsPc = "sleep" \/ pc = "stopped"))
    /\ [](metricsPc # "none" => <>(metricsPc = "call" \/ pc = "stopped"))

\* the loop is at its next call after a call that raised
C8_Witness ==
    /\ metricsEv = "resumed_after_error" /\ metricsPc = "call"
    /\ pc = "serving"

(***************************************************************************)
(* Properties of generate_progress_steps (SpecSteps)                       *)
(***************************************************************************)
RECURSIVE C6_MarkerEnd(_, _)
\* the index of the "." that ends the numeral at the start of line l, when
\* l[1..i-1] are digits; 0 if the numeral is not followed by "."
C6_MarkerEnd(l, i) ==
    IF i > Len(l) THEN 0
    ELSE IF l[i] \in Digits THEN C6_MarkerEnd(l, i + 1)
    ELSE IF l[i] = "." /\ i > 1 THEN i
    ELSE 0

\* "N. text": a numeral, ".", one space, a text that is not blank
C6_WellFormedLine(l) ==
    LET e == C6_MarkerEnd(l, 1) IN
    /\ e > 0 /\ Len(l) >= e + 2
    /\ l[e + 1] = " "
    /\ l[e + 2] \notin Whitespace /\ l[Len(l)] \notin Whitespace

C6_Text(l) == SubSeq(l, C6_MarkerEnd(l, 1) + 2, Len(l))

\* C6: for a reply that is a numbered list, generate_progress_steps returns
\* at most max_steps steps, each the non-empty text of a line without its
\* "N." marker.
C6_AtMostMaxSteps ==
    LET lines == SplitLines(reply) IN
    (stepsPc = "done" /\ \A i \in 1..Len(lines) : C6_WellFormedLine(lines[i]))
    => (/\ stepsOut.error = "none"
        /\ Len(stepsOut.steps) <= max_steps
        /\ \A i \in 1..Len(stepsOut.steps) :
              /\ stepsOut.steps[i] # <<>>
              /\ i <= Len(lines) /\ stepsOut.steps[i] = C6_Text(lines[i]))

RECURSIVE C9_Expected(_)
\* the lines that are a numeral followed by ".", in order, marker stripped
C9_Expected(lines) ==
    IF lines = <<>> THEN <<>>
    ELSE LET l == Strip(Head(lines))
             e == C6_MarkerEnd(l, 1)
         IN IF e > 0
            THEN <<Strip(SubSeq(l, e + 1, Len(l)))>> \o C9_Expected(Tail(lines))
            ELSE C9_Expected(Tail(lines))

\* C9: generate_progress_steps raises nothing and returns exactly the lines
\* that are a numeral followed by ".", in order, marker stripped.
C9_NonMatchingDiscarded ==
    stepsPc = "done"
    => (/\ stepsOut.error = "none"
        /\ stepsOut.steps = C9_Expected(SplitLines(reply)))

====
